---- MODULE Spec2Model ----
(***************************************************************************)
(* A model of core_javascript_sample.js: the three object-copy functions   *)
(* (copyObject, copyObjectDeep, copyObjectViaJSON) over a heap of objects  *)
(* and arrays with prototype links, the closure car of createCar, the      *)
(* partial-application closure of partial, and the debounce closure        *)
(* driven by a timer queue.                                                *)
(***************************************************************************)
EXTENDS Integers, Sequences, FiniteSets, TLC

VARIABLES
    \* createCar (lines 151-173)
    fuel,                 \* closure variable fuel, in units of 1/FuelScale litre
    power,                \* closure variable power (km/L)
    moved,                \* closure variable moved (km)
    publicMembers,        \* the frozen object returned by createCar
    carLog,               \* the last operation on the car and what it printed
    kmMoved,              \* history: sum of km over the runs that moved
    \* partial (lines 182-198)
    originalPartialArgs,  \* the remembered arguments a1..an of partial(func, a1..an)
    partialLog,           \* the last call of the returned function: its arguments,
                          \* this, and what func was applied to
    \* debounce (lines 225-233) and the host's timer queue
    now,                  \* the host clock
    timers,               \* pending setTimeout timers
    timeoutId,            \* closure variable timeoutId of each handler
    nextTimerId,          \* the id the next setTimeout returns
    wait,                 \* closure variable wait of each handler
    events,               \* history: the events dispatched so far
    calls,                \* history: the invocations of func so far
    \* the copy functions (lines 12-56) and the objects they work on
    heap,                 \* the objects and arrays; an address is an index
    target,               \* the argument of the copy call
    result,               \* what the copy call returned
    heap0,                \* history: the heap when the copy was called
    cloneLog              \* the scenario, the call made, its outcome, and the
                          \* writes made through the result since

carVars == <<fuel, power, moved, publicMembers, carLog, kmMoved>>
partialVars == <<originalPartialArgs, partialLog>>
debounceVars == <<now, timers, timeoutId, nextTimerId, wait, events, calls>>
cloneVars == <<heap, target, result, heap0, cloneLog>>
vars == <<carVars, partialVars, debounceVars, cloneVars>>

(***************************************************************************)
(* Small helpers on sequences.                                             *)
(***************************************************************************)
Range(s) == {s[i] : i \in 1..Len(s)}

RECURSIVE SeqsUpTo(_, _)
SeqsUpTo(S, n) ==
    IF n = 0 THEN {<<>>}
    ELSE LET shorter == SeqsUpTo(S, n - 1)
         IN  shorter \cup {Append(s, x) : s \in {t \in shorter : Len(t) = n - 1}, x \in S}

(***************************************************************************)
(* createCar: a closure over fuel, power and moved.                        *)
(***************************************************************************)
\* Math.random() is modelled as one of the fractions i/RandRes, 0 <= i < RandRes.
RandRes == 60
Rand == 0..(RandRes - 1)

\* Math.ceil(r * m) for r = i/RandRes.
CeilTimes(i, m) == (i * m + RandRes - 1) \div RandRes

\* fuel is kept as a multiple of 1/FuelScale so that km / power is exact for every
\* power the car can get (2..5).
FuelScale == 3 * 4 * 5

DrawFuel(i) == CeilTimes(i, 10) + 10
DrawPower(i) == CeilTimes(i, 3) + 2
DrawKm(i) == CeilTimes(i, 6)

WasteFuel(km, pw) == (km * FuelScale) \div pw

\* Object.freeze(publicMembers): an assignment to a property of the frozen object
\* is ignored.
FrozenAssign(obj, field, val) == obj

\* a run with the guard of lines 162-165 left out
RunRefusedNever(f, km, pw) == FALSE

\* the guard of run: the run is refused when fuel < wasteFuel
RunRefused(f, km, pw) == f < WasteFuel(km, pw)

CarIdle ==
    /\ fuel = 0
    /\ power = 0
    /\ moved = 0
    /\ publicMembers = [run |-> "none"]
    /\ carLog = [op |-> "none", km |-> 0, out |-> "none"]
    /\ kmMoved = 0

CarInit ==
    /\ \E i \in Rand : fuel = DrawFuel(i) * FuelScale
    /\ \E i \in Rand : power = DrawPower(i)
    /\ moved = 0
    /\ publicMembers = [run |-> "run"]
    /\ carLog = [op |-> "createCar", km |-> 0, out |-> "none"]
    /\ kmMoved = 0

Run ==
    /\ publicMembers.run = "run"
    /\ \E i \in Rand :
         LET km == DrawKm(i)
         IN  IF RunRefused(fuel, km, power)
             THEN /\ carLog' = [op |-> "run", km |-> km, out |-> "refused"]
                  /\ UNCHANGED <<fuel, moved, kmMoved>>
             ELSE /\ fuel' = fuel - WasteFuel(km, power)
                  /\ moved' = moved + km
                  /\ kmMoved' = kmMoved + km
                  /\ carLog' = [op |-> "run", km |-> km, out |-> "moved"]
    /\ UNCHANGED <<power, publicMembers>>

\* An attempt from outside to assign car.<field> = val.
CarFields == {"fuel", "power", "moved", "run"}

OutsideWrite ==
    /\ \E f \in CarFields :
         /\ publicMembers' = FrozenAssign(publicMembers, f, "tampered")
         /\ carLog' = [op |-> "write", km |-> 0, out |-> f]
    /\ UNCHANGED <<fuel, power, moved, kmMoved>>

CarNext ==
    \/ Run /\ UNCHANGED <<partialVars, debounceVars, cloneVars>>
    \/ OutsideWrite /\ UNCHANGED <<partialVars, debounceVars, cloneVars>>

(***************************************************************************)
(* partial: a closure over originalPartialArgs.                            *)
(***************************************************************************)
MaxPartialArgs == 3
MaxRestArgs == 3

\* what partial is given to remember, and what the returned function is called
\* with (a call may pass the placeholder too)
PartialValues == {"EMPTY_SPACE", "a"}
ArgValues == {"EMPTY_SPACE", "x", "y"}
ThisValues == {"dog", "global"}

\* restArgs.shift(): the first element (undefined when empty) and the rest
ShiftHead(s) == IF Len(s) = 0 THEN "undefined" ELSE Head(s)
ShiftRest(s) == IF Len(s) = 0 THEN s ELSE Tail(s)

\* the for loop of lines 191-195, from index i on: [partialArgs, restArgs]
RECURSIVE FillLoop(_, _, _)
FillLoop(partialArgs, restArgs, i) ==
    IF i > Len(partialArgs) THEN [partialArgs |-> partialArgs, restArgs |-> restArgs]
    ELSE IF partialArgs[i] = "EMPTY_SPACE"
         THEN FillLoop([partialArgs EXCEPT ![i] = ShiftHead(restArgs)],
                       ShiftRest(restArgs), i + 1)
         ELSE FillLoop(partialArgs, restArgs, i + 1)

\* a call that fills the remembered arguments in place (the slice of line 189
\* hoisted out of the returned function)
PartialCallInPlace(remembered, args) ==
    LET done == FillLoop(remembered, args, 1)
    IN  [remembered |-> done.partialArgs,
         applied |-> done.partialArgs \o done.restArgs]

\* One call of the returned function: what stays remembered and what func gets.
PartialCall(remembered, args) ==
    LET partialArgs == remembered      \* Array.prototype.slice.call(.., 1): a copy
        done == FillLoop(partialArgs, args, 1)
    IN  [remembered |-> remembered,
         applied |-> done.partialArgs \o done.restArgs]

PartialIdle ==
    /\ originalPartialArgs = <<>>
    /\ partialLog = [n |-> 0, args |-> <<>>, self |-> "none", applied |-> <<>>,
                     made |-> <<>>]

PartialInit ==
    /\ \E a \in SeqsUpTo(PartialValues, MaxPartialArgs) :
         /\ originalPartialArgs = a
         /\ partialLog = [n |-> 0, args |-> <<>>, self |-> "none", applied |-> <<>>,
                          made |-> a]

MaxCalls == 2

CallPartial ==
    /\ partialLog.n < MaxCalls
    /\ \E r \in SeqsUpTo(ArgValues, MaxRestArgs), self \in ThisValues :
         LET c == PartialCall(originalPartialArgs, r)
         IN  /\ originalPartialArgs' = c.remembered
             /\ partialLog' = [partialLog EXCEPT !.n = @ + 1, !.args = r,
                                                 !.self = self, !.applied = c.applied]

PartialNext ==
    CallPartial /\ UNCHANGED <<carVars, debounceVars, cloneVars>>

(***************************************************************************)
(* debounce: a closure over eventName, func, wait and timeoutId, and the   *)
(* host's timers (setTimeout, clearTimeout).                               *)
(***************************************************************************)
MaxTime == 4
MaxEvents == 3
MaxWait == 2

\* the two handlers registered at lines 241-242
Handlers == {"move", "wheel"}
\* the this of a call of the handler
Receivers == {"body", "window"}

\* a handler that never cancels (line 230 left out)
clearTimeoutNothing(ts, id) == ts

\* clearTimeout(id): the timer with that id, if still pending, is cancelled;
\* null (0) and the id of a timer that has fired cancel nothing
clearTimeout(ts, id) == {t \in ts : t.id # id}

\* setTimeout(func.bind(self, event), wait) called at time `at`
setTimeout(ts, id, h, self, event, delay, at) ==
    ts \cup {[id |-> id, h |-> h, due |-> at + delay, event |-> event, self |-> self]}

DebounceIdle ==
    /\ now = 0
    /\ timers = {}
    /\ timeoutId = [h \in Handlers |-> 0]
    /\ nextTimerId = 1
    /\ wait = [h \in Handlers |-> 0]
    /\ events = <<>>
    /\ calls = <<>>

DebounceInit ==
    /\ now = 0
    /\ timers = {}
    /\ timeoutId = [h \in Handlers |-> 0]
    /\ nextTimerId = 1
    /\ wait \in [Handlers -> 1..MaxWait]
    /\ events = <<>>
    /\ calls = <<>>

\* the function debounce returns, called with this = self for a new event
HandleEvent ==
    /\ Len(events) < MaxEvents
    /\ \E h \in Handlers, self \in Receivers :
         LET event == Len(events) + 1
             cleared == clearTimeout(timers, timeoutId[h])
         IN  /\ timers' = setTimeout(cleared, nextTimerId, h, self, event, wait[h], now)
             /\ timeoutId' = [timeoutId EXCEPT ![h] = nextTimerId]
             /\ nextTimerId' = nextTimerId + 1
             /\ events' = Append(events, [h |-> h, at |-> now, event |-> event,
                                          self |-> self])
    /\ UNCHANGED <<now, wait, calls>>

\* the host runs a timer that is due: func.bind(self, event)()
FireTimer ==
    /\ \E t \in timers :
         /\ t.due <= now
         /\ timers' = timers \ {t}
         /\ calls' = Append(calls, [h |-> t.h, at |-> now, event |-> t.event,
                                    self |-> t.self])
    /\ UNCHANGED <<now, timeoutId, nextTimerId, wait, events>>

\* time passes; a due timer runs before the clock moves on
Tick ==
    /\ now < MaxTime
    /\ \A t \in timers : t.due > now
    /\ now' = now + 1
    /\ UNCHANGED <<timers, timeoutId, nextTimerId, wait, events, calls>>

DebounceNext ==
    \/ HandleEvent /\ UNCHANGED <<carVars, partialVars, cloneVars>>
    \/ FireTimer /\ UNCHANGED <<carVars, partialVars, cloneVars>>
    \/ Tick /\ UNCHANGED <<carVars, partialVars, cloneVars>>

(***************************************************************************)
(* Values and the heap.  A value is a record [t, v]: a primitive, a        *)
(* function (shared by reference, never looked into) or a reference to an  *)
(* object or array of the heap.                                            *)
(***************************************************************************)
Num(n) == [t |-> "number", v |-> n]
Str(n) == [t |-> "string", v |-> n]     \* the string of n characters "x"
Fn(n) == [t |-> "function", v |-> n]
Ref(a) == [t |-> "ref", v |-> a]
Undef == [t |-> "undefined", v |-> 0]
Null == [t |-> "null", v |-> 0]
NaN == [t |-> "NaN", v |-> 0]           \* NaN and the infinities
Absent == [t |-> "absent", v |-> 0]     \* marks a key an object does not own

IndexKeys == <<"0", "1", "2">>
NameKeys == <<"a", "b">>
\* for...in visits integer keys in ascending order, then the other keys
KeyOrder == IndexKeys \o NameKeys
Keys == Range(KeyOrder)

NoProps == [k \in Keys |-> Absent]
\* {} and [] : proto 0 is the built-in prototype, which has no enumerable property
NewObject == [kind |-> "object", props |-> NoProps, proto |-> 0, length |-> 0]
NewArray == [kind |-> "array", props |-> NoProps, proto |-> 0, length |-> 0]
New(kind) == IF kind = "array" THEN NewArray ELSE NewObject

IndexOf(k) == CHOOSE i \in 1..Len(IndexKeys) : IndexKeys[i] = k

\* the test without its null check: typeof null is 'object' too
IsObjectOrNull(v) == v.t \in {"ref", "null"}

\* typeof v === 'object' && v !== null
IsObject(v) == v.t = "ref"

Owns(h, a, k) == h[a].props[k] # Absent
OwnKeys(h, a) == {k \in Keys : Owns(h, a, k)}
InOrder(ks) == SelectSeq(KeyOrder, LAMBDA k : k \in ks)

\* obj[k] = val; on an array an index key at or past length extends length
SetOwn(h, a, k, val) ==
    [h EXCEPT ![a].props[k] = val,
              ![a].length = IF h[a].kind = "array" /\ k \in Range(IndexKeys)
                               /\ IndexOf(k) > @
                            THEN IndexOf(k) ELSE @]

\* the keys for (var prop in v) visits: the enumerable keys of the object, then
\* those of its prototype chain that no nearer object has; a string has its
\* indices; any other primitive and a function have none
RECURSIVE ChainKeys(_, _, _)
ChainKeys(h, a, seen) ==
    IF a = 0 THEN <<>>
    ELSE InOrder(OwnKeys(h, a) \ seen)
         \o ChainKeys(h, h[a].proto, seen \cup OwnKeys(h, a))

\* an enumeration filtered by hasOwnProperty
ForInOwnKeys(h, v) ==
    IF v.t = "ref" THEN InOrder(OwnKeys(h, v.v))
    ELSE IF v.t = "string" THEN SubSeq(IndexKeys, 1, v.v)
    ELSE <<>>

ForInKeys(h, v) ==
    IF v.t = "ref" THEN ChainKeys(h, v.v, {})
    ELSE IF v.t = "string" THEN SubSeq(IndexKeys, 1, v.v)
    ELSE <<>>

\* v[k]: property lookup along the prototype chain
RECURSIVE Lookup(_, _, _)
Lookup(h, a, k) ==
    IF a = 0 THEN Undef
    ELSE IF Owns(h, a, k) THEN h[a].props[k]
    ELSE Lookup(h, h[a].proto, k)

Get(h, v, k) ==
    IF v.t = "ref" THEN Lookup(h, v.v, k)
    ELSE IF v.t = "string" /\ k \in Range(SubSeq(IndexKeys, 1, v.v)) THEN Str(1)
    ELSE Undef

(***************************************************************************)
(* copyObject (lines 12-18).                                               *)
(***************************************************************************)
RECURSIVE ShallowLoop(_, _, _, _)
ShallowLoop(h, tgt, r, keys) ==
    IF keys = <<>> THEN h
    ELSE ShallowLoop(SetOwn(h, r, Head(keys), Get(h, tgt, Head(keys))), tgt, r,
                     Tail(keys))

copyObject(h, tgt) ==
    LET r == Len(h) + 1                          \* var result = {}
    IN  [ok |-> TRUE,
         heap |-> ShallowLoop(Append(h, NewObject), tgt, r, ForInKeys(h, tgt)),
         result |-> Ref(r)]

(***************************************************************************)
(* copyObjectDeep (lines 31-41).  `stack` is the number of frames the call *)
(* stack has left; a call that finds none fails (RangeError) and the       *)
(* failure unwinds every caller.                                           *)
(***************************************************************************)
MaxStack == 8

RECURSIVE copyObjectDeep(_, _, _)
RECURSIVE DeepLoop(_, _, _, _, _)

\* a loop that assigns the member itself, as copyObject does
DeepLoopSharing(h, tgt, r, keys, stack) ==
    IF keys = <<>> THEN [ok |-> TRUE, heap |-> h, result |-> Ref(r)]
    ELSE DeepLoop(SetOwn(h, r, Head(keys), Get(h, tgt, Head(keys))), tgt, r,
                  Tail(keys), stack)

\* a copy that stops at a depth limit and returns what it has reached
copyObjectDeepBounded(h, tgt, stack) ==
    IF stack = 0 THEN [ok |-> TRUE, heap |-> h, result |-> tgt]
    ELSE IF IsObject(tgt)
         THEN DeepLoop(Append(h, NewObject), tgt, Len(h) + 1, ForInKeys(h, tgt),
                       stack)
         ELSE [ok |-> TRUE, heap |-> h, result |-> tgt]

DeepLoop(h, tgt, r, keys, stack) ==
    IF keys = <<>> THEN [ok |-> TRUE, heap |-> h, result |-> Ref(r)]
    ELSE LET c == copyObjectDeep(h, Get(h, tgt, Head(keys)), stack - 1)
         IN  IF ~c.ok THEN c
             ELSE DeepLoop(SetOwn(c.heap, r, Head(keys), c.result), tgt, r,
                           Tail(keys), stack)

copyObjectDeep(h, tgt, stack) ==
    IF stack = 0 THEN [ok |-> FALSE, heap |-> h, result |-> Undef]
    ELSE IF IsObject(tgt)
         THEN DeepLoop(Append(h, NewObject), tgt, Len(h) + 1, ForInKeys(h, tgt),
                       stack)
         ELSE [ok |-> TRUE, heap |-> h, result |-> tgt]

(***************************************************************************)
(* copyObjectViaJSON (lines 54-56): JSON.parse(JSON.stringify(target)).    *)
(* The JSON text is a sequence of tokens [y, x].                           *)
(***************************************************************************)
Tok(y, x) == [y |-> y, x |-> x]
Punct(c) == Tok("punct", c)
Digits == <<"0", "1", "2", "3", "4", "5", "6", "7", "8", "9">>
Chars == <<"", "x", "xx", "xxx">>

Text(toks) == [ok |-> TRUE, undef |-> FALSE, text |-> toks]
NoText == [ok |-> TRUE, undef |-> TRUE, text |-> <<>>]
Circular == [ok |-> FALSE, undef |-> FALSE, text |-> <<>>]

\* JSON.stringify: SerializeJSONProperty, SerializeJSONObject and
\* SerializeJSONArray of the language standard; `stack` holds the objects being
\* serialized, and meeting one of them again is the TypeError for a cycle
RECURSIVE SerializeJSONProperty(_, _, _)
RECURSIVE SerializeJSONObject(_, _, _, _, _)
RECURSIVE SerializeJSONArray(_, _, _, _, _)

\* an object serializer that writes null for a member without a JSON text, as the
\* array serializer does
SerializeJSONObjectNulls(h, a, keys, stack, acc) ==
    IF keys = <<>> THEN Text(<<Punct("{")>> \o acc \o <<Punct("}")>>)
    ELSE LET s == SerializeJSONProperty(h, h[a].props[Head(keys)], stack)
         IN  IF ~s.ok THEN s
             ELSE SerializeJSONObject(h, a, Tail(keys), stack,
                      acc \o (IF acc = <<>> THEN <<>> ELSE <<Punct(",")>>)
                          \o <<Tok("string", Head(keys)), Punct(":")>>
                          \o (IF s.undef THEN <<Tok("literal", "null")>> ELSE s.text))

SerializeJSONObject(h, a, keys, stack, acc) ==
    IF keys = <<>> THEN Text(<<Punct("{")>> \o acc \o <<Punct("}")>>)
    ELSE LET s == SerializeJSONProperty(h, h[a].props[Head(keys)], stack)
         IN  IF ~s.ok THEN s
             ELSE IF s.undef THEN SerializeJSONObject(h, a, Tail(keys), stack, acc)
             ELSE SerializeJSONObject(h, a, Tail(keys), stack,
                      acc \o (IF acc = <<>> THEN <<>> ELSE <<Punct(",")>>)
                          \o <<Tok("string", Head(keys)), Punct(":")>> \o s.text)

SerializeJSONArray(h, a, i, stack, acc) ==
    IF i > h[a].length THEN Text(<<Punct("[")>> \o acc \o <<Punct("]")>>)
    ELSE LET s == SerializeJSONProperty(h, Get(h, Ref(a), IndexKeys[i]), stack)
         IN  IF ~s.ok THEN s
             ELSE SerializeJSONArray(h, a, i + 1, stack,
                      acc \o (IF acc = <<>> THEN <<>> ELSE <<Punct(",")>>)
                          \o (IF s.undef THEN <<Tok("literal", "null")>> ELSE s.text))

SerializeJSONProperty(h, v, stack) ==
    CASE v.t \in {"undefined", "function"} -> NoText
      [] v.t \in {"null", "NaN"} -> Text(<<Tok("literal", "null")>>)
      [] v.t = "number" -> Text(<<Tok("number", Digits[v.v + 1])>>)
      [] v.t = "string" -> Text(<<Tok("string", Chars[v.v + 1])>>)
      [] v.t = "ref" ->
           IF v.v \in stack THEN Circular
           ELSE IF h[v.v].kind = "array"
                THEN SerializeJSONArray(h, v.v, 1, stack \cup {v.v}, <<>>)
                ELSE SerializeJSONObject(h, v.v, InOrder(OwnKeys(h, v.v)),
                                         stack \cup {v.v}, <<>>)

JSONstringify(h, v) == SerializeJSONProperty(h, v, {})

\* JSON.parse: a recursive-descent parser; a token it does not expect is the
\* SyntaxError
ParseError(h) == [ok |-> FALSE, heap |-> h, val |-> Undef, pos |-> 0]
Parsed(h, v, pos) == [ok |-> TRUE, heap |-> h, val |-> v, pos |-> pos]
At(toks, pos) == IF pos <= Len(toks) THEN toks[pos] ELSE Tok("end", "")

RECURSIVE ParseValue(_, _, _)
RECURSIVE ParseMembers(_, _, _, _)
RECURSIVE ParseElements(_, _, _, _, _)

\* after "{" or ",": "key" : value, then "," or "}"
ParseMembers(h, toks, pos, r) ==
    IF At(toks, pos).y # "string" \/ At(toks, pos).x \notin Keys
       \/ At(toks, pos + 1) # Punct(":")
    THEN ParseError(h)
    ELSE LET p == ParseValue(h, toks, pos + 2)
         IN  IF ~p.ok THEN p
             ELSE LET h2 == SetOwn(p.heap, r, At(toks, pos).x, p.val)
                  IN  IF At(toks, p.pos) = Punct("}") THEN Parsed(h2, Ref(r), p.pos + 1)
                      ELSE IF At(toks, p.pos) = Punct(",")
                           THEN ParseMembers(h2, toks, p.pos + 1, r)
                           ELSE ParseError(h)

\* after "[" or ",": value, then "," or "]"
ParseElements(h, toks, pos, r, i) ==
    LET p == ParseValue(h, toks, pos)
    IN  IF ~p.ok \/ i > Len(IndexKeys) THEN ParseError(h)
        ELSE LET h2 == SetOwn(p.heap, r, IndexKeys[i], p.val)
             IN  IF At(toks, p.pos) = Punct("]") THEN Parsed(h2, Ref(r), p.pos + 1)
                 ELSE IF At(toks, p.pos) = Punct(",")
                      THEN ParseElements(h2, toks, p.pos + 1, r, i + 1)
                      ELSE ParseError(h)

ParseValue(h, toks, pos) ==
    LET tok == At(toks, pos)
    IN  CASE tok = Tok("literal", "null") -> Parsed(h, Null, pos + 1)
          [] tok.y = "number" ->
               Parsed(h, Num((CHOOSE i \in 1..Len(Digits) : Digits[i] = tok.x) - 1),
                      pos + 1)
          [] tok.y = "string" ->
               Parsed(h, Str((CHOOSE i \in 1..Len(Chars) : Chars[i] = tok.x) - 1),
                      pos + 1)
          [] tok = Punct("{") ->
               IF At(toks, pos + 1) = Punct("}")
               THEN Parsed(Append(h, NewObject), Ref(Len(h) + 1), pos + 2)
               ELSE ParseMembers(Append(h, NewObject), toks, pos + 1, Len(h) + 1)
          [] tok = Punct("[") ->
               IF At(toks, pos + 1) = Punct("]")
               THEN Parsed(Append(h, NewArray), Ref(Len(h) + 1), pos + 2)
               ELSE ParseElements(Append(h, NewArray), toks, pos + 1, Len(h) + 1, 1)
          [] OTHER -> ParseError(h)

JSONparse(h, toks) ==
    LET p == ParseValue(h, toks, 1)
    IN  IF p.ok /\ p.pos = Len(toks) + 1 THEN p ELSE ParseError(h)

copyObjectViaJSON(h, tgt) ==
    LET s == JSONstringify(h, tgt)
        \* JSON.stringify returns undefined for a function or undefined, and
        \* JSON.parse reads its argument as the text "undefined"
        text == IF s.undef THEN <<Tok("word", "undefined")>> ELSE s.text
        p == JSONparse(h, text)
    IN  IF s.ok /\ p.ok THEN [ok |-> TRUE, heap |-> p.heap, result |-> p.val]
        ELSE [ok |-> FALSE, heap |-> h, result |-> Undef]

(***************************************************************************)
(* The program around the copy functions: it builds a value, calls one of  *)
(* the copy functions on it, and then writes through the copy.             *)
(***************************************************************************)
\* Two scenarios.  "copy": a value of up to MaxBuild steps, with members of every
\* kind, is copied by one of the three functions.  "write": a value of up to
\* MaxWriteBuild steps is copied by copyObject or copyObjectDeep and up to
\* MaxWrites writes are made through the copy.
MaxBuild == 3
MaxWriteBuild == 2
MaxWrites == 2

SlotLeaves == {Num(1), Null, Undef, NaN, Fn(1)}
TopValues == SlotLeaves \cup {Str(0), Str(2)}

BuildLimit(env) == IF env = "copy" THEN MaxBuild ELSE MaxWriteBuild
LeavesOf(env) == IF env = "copy" THEN SlotLeaves ELSE {Num(1)}

NoWrite == [a |-> 0, k |-> "a"]

CloneIdle ==
    /\ heap = <<>>
    /\ target = Undef
    /\ result = Undef
    /\ heap0 = <<>>
    /\ cloneLog = [env |-> "idle", op |-> "idle", outcome |-> "none", built |-> 0,
                   writes |-> 0, last |-> NoWrite]

CloneInit ==
    /\ \/ /\ heap = <<>>
          /\ target \in TopValues
       \/ /\ heap \in {<<NewObject>>, <<NewArray>>}
          /\ target = Ref(1)
    /\ result = Undef
    /\ heap0 = <<>>
    /\ cloneLog = [env |-> "copy", op |-> "none", outcome |-> "none", built |-> 0,
                   writes |-> 0, last |-> NoWrite]

WriteInit ==
    /\ heap \in {<<NewObject>>, <<NewArray>>}
    /\ target = Ref(1)
    /\ result = Undef
    /\ heap0 = <<>>
    /\ cloneLog = [env |-> "write", op |-> "none", outcome |-> "none", built |-> 0,
                   writes |-> 0, last |-> NoWrite]

Building == cloneLog.op = "none" /\ cloneLog.built < BuildLimit(cloneLog.env)

\* the keys a literal may give the object at a: a name not yet used, or, for an
\* array, the next index
FreeKeys(h, a) ==
    IF h[a].kind = "array"
    THEN IF h[a].length < Len(IndexKeys) THEN {IndexKeys[h[a].length + 1]} ELSE {}
    ELSE Range(NameKeys) \ OwnKeys(h, a)

Built == [cloneLog EXCEPT !.built = @ + 1]

\* obj.k = <primitive or function>
SetLeaf ==
    /\ Building
    /\ \E a \in 1..Len(heap) : \E k \in FreeKeys(heap, a) : \E v \in LeavesOf(cloneLog.env) :
         heap' = SetOwn(heap, a, k, v)
    /\ cloneLog' = Built
    /\ UNCHANGED <<target, result, heap0>>

\* obj.k = <an object or array that exists already>
SetRef ==
    /\ Building
    /\ \E a \in 1..Len(heap) : \E k \in FreeKeys(heap, a) : \E b \in 1..Len(heap) :
         heap' = SetOwn(heap, a, k, Ref(b))
    /\ cloneLog' = Built
    /\ UNCHANGED <<target, result, heap0>>

\* obj.k = {} or obj.k = []
SetNew ==
    /\ Building
    /\ \E a \in 1..Len(heap) : \E k \in FreeKeys(heap, a) :
       \E kind \in {"object", "array"} :
         heap' = SetOwn(Append(heap, New(kind)), a, k, Ref(Len(heap) + 1))
    /\ cloneLog' = Built
    /\ UNCHANGED <<target, result, heap0>>

\* the object at a is given a new, empty prototype object
SetProto ==
    /\ Building
    /\ \E a \in 1..Len(heap) :
         /\ heap[a].kind = "object"
         /\ heap[a].proto = 0
         /\ heap' = [Append(heap, NewObject) EXCEPT ![a].proto = Len(heap) + 1]
    /\ cloneLog' = Built
    /\ UNCHANGED <<target, result, heap0>>

Called(name, c) ==
    /\ heap0' = heap
    /\ heap' = c.heap
    /\ result' = c.result
    /\ cloneLog' = [cloneLog EXCEPT !.op = name,
                       !.outcome = IF c.ok THEN "returned" ELSE "threw"]
    /\ UNCHANGED target

CallCopyObject ==
    /\ cloneLog.op = "none"
    /\ Called("copyObject", copyObject(heap, target))

CallCopyObjectDeep ==
    /\ cloneLog.op = "none"
    /\ Called("copyObjectDeep", copyObjectDeep(heap, target, MaxStack))

CallCopyObjectViaJSON ==
    /\ cloneLog.op = "none"
    /\ Called("copyObjectViaJSON", copyObjectViaJSON(heap, target))

\* the objects and arrays reachable from a value through its properties
Children(h, a) ==
    {Get(h, Ref(a), k).v : k \in {x \in Range(ForInKeys(h, Ref(a))) :
                                     Get(h, Ref(a), x).t = "ref"}}

RECURSIVE Closure(_, _)
Closure(h, as) ==
    LET more == as \cup UNION {Children(h, a) : a \in as}
    IN  IF more = as THEN as ELSE Closure(h, more)

Reach(h, v) == IF v.t = "ref" THEN Closure(h, {v.v}) ELSE {}

\* a write made through the copy: r.path.k = 2, for an object or array reached
\* from the result
WriteThrough ==
    /\ cloneLog.env = "write"
    /\ cloneLog.op \in {"copyObject", "copyObjectDeep"}
    /\ cloneLog.outcome = "returned"
    /\ cloneLog.writes < MaxWrites
    /\ \E a \in Reach(heap, result) : \E k \in OwnKeys(heap, a) \cup {"b"} :
         /\ heap' = SetOwn(heap, a, k, Num(2))
         /\ cloneLog' = [cloneLog EXCEPT !.writes = @ + 1, !.last = [a |-> a, k |-> k]]
    /\ UNCHANGED <<target, result, heap0>>

CloneNext ==
    \/ SetLeaf /\ UNCHANGED <<carVars, partialVars, debounceVars>>
    \/ SetRef /\ UNCHANGED <<carVars, partialVars, debounceVars>>
    \/ SetNew /\ UNCHANGED <<carVars, partialVars, debounceVars>>
    \/ SetProto /\ UNCHANGED <<carVars, partialVars, debounceVars>>
    \/ CallCopyObject /\ UNCHANGED <<carVars, partialVars, debounceVars>>
    \/ CallCopyObjectDeep /\ UNCHANGED <<carVars, partialVars, debounceVars>>
    \/ CallCopyObjectViaJSON /\ UNCHANGED <<carVars, partialVars, debounceVars>>

WriteNext ==
    \/ SetLeaf /\ UNCHANGED <<carVars, partialVars, debounceVars>>
    \/ SetRef /\ UNCHANGED <<carVars, partialVars, debounceVars>>
    \/ SetNew /\ UNCHANGED <<carVars, partialVars, debounceVars>>
    \/ SetProto /\ UNCHANGED <<carVars, partialVars, debounceVars>>
    \/ CallCopyObject /\ UNCHANGED <<carVars, partialVars, debounceVars>>
    \/ CallCopyObjectDeep /\ UNCHANGED <<carVars, partialVars, debounceVars>>
    \/ WriteThrough /\ UNCHANGED <<carVars, partialVars, debounceVars>>

(***************************************************************************)
(* Specifications, one for each part of the file.                          *)
(***************************************************************************)
InitCar == CarInit /\ PartialIdle /\ DebounceIdle /\ CloneIdle

SpecCar == InitCar /\ [][CarNext]_vars

InitPartial == PartialInit /\ CarIdle /\ DebounceIdle /\ CloneIdle

SpecPartial == InitPartial /\ [][PartialNext]_vars

InitDebounce == DebounceInit /\ CarIdle /\ PartialIdle /\ CloneIdle

SpecDebounce == InitDebounce /\ [][DebounceNext]_vars

InitClone == CloneInit /\ CarIdle /\ PartialIdle /\ DebounceIdle

SpecClone == InitClone /\ [][CloneNext]_vars

InitWrite == WriteInit /\ CarIdle /\ PartialIdle /\ DebounceIdle

SpecWrite == InitWrite /\ [][WriteNext]_vars

(***************************************************************************)
(* What the properties below speak of.                                     *)
(***************************************************************************)
Returned(name) == cloneLog.op = name /\ cloneLog.outcome = "returned"
Composite(v) == v.t = "ref"

\* no object or array reachable from v reaches itself
Acyclic(h, v) == \A a \in Reach(h, v) : a \notin Closure(h, Children(h, a))

\* v1 in h1 and v2 in h2 have the same keys and, recursively, the same values;
\* primitives and functions are the same value
RECURSIVE SameShape(_, _, _, _, _)
SameShape(h1, v1, h2, v2, n) ==
    IF Composite(v1)
    THEN /\ Composite(v2)
         /\ n > 0
         /\ Range(ForInKeys(h1, v1)) = Range(ForInKeys(h2, v2))
         /\ \A k \in Range(ForInKeys(h1, v1)) :
              SameShape(h1, Get(h1, v1, k), h2, Get(h2, v2, k), n - 1)
    ELSE v1 = v2

\* v1 and v2 are of the same kind, and so are the members of v1 and v2
RECURSIVE SameKinds(_, _, _, _, _)
SameKinds(h1, v1, h2, v2, n) ==
    Composite(v1) =>
        /\ Composite(v2)
        /\ h2[v2.v].kind = h1[v1.v].kind
        /\ n > 0 => \A k \in Range(ForInKeys(h1, v1)) :
                       SameKinds(h1, Get(h1, v1, k), h2, Get(h2, v2, k), n - 1)

\* the objects of the prototype chain that starts at a
RECURSIVE ProtoChain(_, _)
ProtoChain(h, a) == IF a = 0 THEN {} ELSE {a} \cup ProtoChain(h, h[a].proto)

\* the keys v inherits and does not own
InheritedKeys(h, v) ==
    {p \in Keys : /\ ~Owns(h, v.v, p)
                  /\ \E a \in ProtoChain(h, h[v.v].proto) : Owns(h, a, p)}

\* the input holds no function, at any depth
NoFunction(h, v) ==
    /\ v.t # "function"
    /\ \A a \in Reach(h, v) : \A k \in Range(ForInKeys(h, Ref(a))) :
         Get(h, Ref(a), k).t # "function"

\* v2 in h2 is what JSON keeps of v1 in h1: a number, null or string is itself,
\* NaN is null; an array keeps its length, with null in the slots that hold
\* undefined or a function; an object keeps its own members except those that
\* hold undefined or a function
RECURSIVE JsonImage(_, _, _, _, _)
JsonImage(h1, v1, h2, v2, n) ==
    CASE v1.t \in {"number", "null", "string"} -> v2 = v1
      [] v1.t = "NaN" -> v2 = Null
      [] Composite(v1) /\ n > 0 ->
           /\ Composite(v2)
           /\ h2[v2.v].kind = h1[v1.v].kind
           /\ h2[v2.v].length = h1[v1.v].length
           /\ LET dropped == {k \in OwnKeys(h1, v1.v) :
                                 h1[v1.v].props[k].t \in {"undefined", "function"}}
              IN  IF h1[v1.v].kind = "array"
                  THEN /\ OwnKeys(h2, v2.v) = OwnKeys(h1, v1.v)
                       /\ \A k \in dropped : h2[v2.v].props[k] = Null
                       /\ \A k \in OwnKeys(h1, v1.v) \ dropped :
                            JsonImage(h1, h1[v1.v].props[k], h2, h2[v2.v].props[k],
                                      n - 1)
                  ELSE /\ OwnKeys(h2, v2.v) = OwnKeys(h1, v1.v) \ dropped
                       /\ \A k \in OwnKeys(h1, v1.v) \ dropped :
                            JsonImage(h1, h1[v1.v].props[k], h2, h2[v2.v].props[k],
                                      n - 1)
      [] OTHER -> FALSE

\* the objects and arrays that answer a read made through v: those v reaches
\* through properties and prototype links
RECURSIVE Backing(_, _)
Backing(h, as) ==
    LET more == as \cup UNION {Children(h, a) \cup (ProtoChain(h, a)) : a \in as}
    IN  IF more = as THEN as ELSE Backing(h, more)

Depth == Len(heap0) + 1
Fresh == (Len(heap0) + 1)..Len(heap)

(***************************************************************************)
(* The properties.                                                         *)
(***************************************************************************)
\* C1: for an acyclic object or array v, copyObjectDeep(v) returns a value with
\* the same keys and, recursively, the same values (functions included, as the
\* same function), and no object or array reachable from the result is one
\* reachable from v.
C1_DeepCopyEqualAndDisjoint ==
    (cloneLog.op = "copyObjectDeep" /\ cloneLog.writes = 0 /\ Composite(target)
        /\ Acyclic(heap0, target)) =>
    /\ cloneLog.outcome = "returned"
    /\ SameShape(heap0, target, heap, result, Depth)
    /\ Reach(heap, result) \cap Reach(heap, target) = {}
    /\ Reach(heap, result) \subseteq Fresh

\* C1 witness: a deep copy of a value nested two levels that holds a function.
C1_Witness ==
    /\ Returned("copyObjectDeep") /\ cloneLog.writes = 0 /\ Composite(target)
    /\ \E k1, k2, k3 \in Keys :
         /\ Composite(Get(heap0, target, k1))
         /\ Composite(Get(heap0, Get(heap0, target, k1), k2))
         /\ Get(heap0, target, k3).t = "function"
         /\ Get(heap, result, k3) = Get(heap0, target, k3)
    /\ Cardinality(Reach(heap, result)) = 3

C3_CopyKeepsKind ==
    /\ (Returned("copyObject") /\ cloneLog.writes = 0 /\ Composite(target)) =>
         SameKinds(heap0, target, heap, result, 0)
    /\ (Returned("copyObjectDeep") /\ cloneLog.writes = 0 /\ Composite(target)) =>
         SameKinds(heap0, target, heap, result, Depth)

\* C4 (as claimed): copyObject returns a primitive or a function as it is.
C4_ShallowReturnsNonComposite ==
    (cloneLog.op = "copyObject" /\ ~Composite(target)) =>
        cloneLog.outcome = "returned" /\ result = target

\* C5: copyObjectDeep returns exactly when no object or array of its input
\* reaches itself; on any other input the recursion goes on until the call
\* stack is used up.
C5_DeepReturnsIffAcyclic ==
    cloneLog.op = "copyObjectDeep" =>
        (cloneLog.outcome = "returned" <=> Acyclic(heap0, target))

\* C5 witness: a deep copy of an input with a cycle through two objects that
\* did not return.
C5_Witness ==
    /\ cloneLog.op = "copyObjectDeep" /\ cloneLog.outcome = "threw"
    /\ Composite(target)
    /\ target.v \notin Children(heap0, target.v)
    /\ target.v \in Closure(heap0, Children(heap0, target.v))

\* C6: copyObject and copyObjectDeep give the copy, as an own property, every
\* key the input inherits from its prototype chain and does not own, with the
\* inherited value (copyObject) or a fresh deep copy of it (copyObjectDeep).
C6_InheritedKeysCopied ==
    /\ (Returned("copyObject") /\ cloneLog.writes = 0 /\ Composite(target)) =>
         \A p \in InheritedKeys(heap0, target) :
            /\ Owns(heap, result.v, p)
            /\ heap[result.v].props[p] = Get(heap0, target, p)
    /\ (Returned("copyObjectDeep") /\ cloneLog.writes = 0 /\ Composite(target)) =>
         \A p \in InheritedKeys(heap0, target) :
            /\ Owns(heap, result.v, p)
            /\ SameShape(heap0, Get(heap0, target, p), heap,
                         heap[result.v].props[p], Depth)
            /\ Composite(Get(heap0, target, p)) =>
                 heap[result.v].props[p].v \in Fresh

\* C6 witness: a deep copy of an object that inherits an object-valued key.
C6_Witness ==
    /\ Returned("copyObjectDeep") /\ cloneLog.writes = 0 /\ Composite(target)
    /\ \E p \in InheritedKeys(heap0, target) :
         /\ Composite(Get(heap0, target, p))
         /\ Owns(heap, result.v, p)
    /\ OwnKeys(heap0, target.v) # {}

EventsOf(h) == SelectSeq(events, LAMBDA e : e.h = h)
CallsOf(h) == SelectSeq(calls, LAMBDA c : c.h = h)
PendingOf(h) == {t \in timers : t.h = h}
\* each event of the handler came less than wait after the one before it
Burst(h) ==
    \A i \in 1..(Len(EventsOf(h)) - 1) :
        EventsOf(h)[i + 1].at - EventsOf(h)[i].at < wait[h]
LastEvent(h) == EventsOf(h)[Len(EventsOf(h))]

\* C8: a handler made by debounce has at most one timer pending; func is called
\* only with an event of the handler and the this of that event's call, no
\* sooner than wait after it, and never with an event that was followed by
\* another less than wait later; and while the events of the handler come less
\* than wait apart, func has been called either not at all, the timer of the
\* last event pending, or exactly once, with the last event.
C8_DebounceCallsOnceWithLast ==
    \A h \in Handlers :
        /\ Cardinality(PendingOf(h)) <= 1
        /\ \A i \in 1..Len(calls) :
             calls[i].h = h =>
                 \E j \in 1..Len(events) :
                    /\ events[j].h = h
                    /\ events[j].event = calls[i].event
                    /\ events[j].self = calls[i].self
                    /\ calls[i].at >= events[j].at + wait[h]
                    /\ \A k \in (j + 1)..Len(events) :
                         events[k].h = h => events[k].at - events[j].at >= wait[h]
        /\ (EventsOf(h) # <<>> /\ Burst(h)) =>
             IF PendingOf(h) = {}
             THEN /\ Len(CallsOf(h)) = 1
                  /\ CallsOf(h)[1].event = LastEvent(h).event
                  /\ CallsOf(h)[1].self = LastEvent(h).self
                  /\ CallsOf(h)[1].at >= LastEvent(h).at + wait[h]
             ELSE /\ CallsOf(h) = <<>>
                  /\ \A t \in PendingOf(h) :
                       /\ t.event = LastEvent(h).event
                       /\ t.due = LastEvent(h).at + wait[h]

\* C8 witness: three events of one handler, each less than wait after the one
\* before and with different this, and func called once.
C8_Witness ==
    \E h \in Handlers :
        /\ Len(EventsOf(h)) = 3
        /\ Burst(h)
        /\ EventsOf(h)[3].at > EventsOf(h)[1].at
        /\ EventsOf(h)[3].self # EventsOf(h)[2].self
        /\ Len(CallsOf(h)) = 1

\* what the properties on partial speak of
Holes(a, p) == Cardinality({i \in 1..p : a[i] = "EMPTY_SPACE"})
FilledAt(a, r, p) ==
    IF a[p] # "EMPTY_SPACE" THEN a[p]
    ELSE IF Holes(a, p) <= Len(r) THEN r[Holes(a, p)] ELSE "undefined"
Filled(a, r) ==
    [p \in 1..Len(a) |-> FilledAt(a, r, p)] \o SubSeq(r, Holes(a, Len(a)) + 1, Len(r))

\* C9: every call g(r1..rm) of g = partial(func, a1..an) applies func to a1..an
\* with the i-th placeholder replaced by ri (undefined when there is no ri),
\* followed by the call arguments no placeholder took; the remembered a1..an are
\* as they were given to partial after every call.
C9_PartialFillsPlaceholders ==
    /\ originalPartialArgs = partialLog.made
    /\ partialLog.n > 0 => partialLog.applied = Filled(partialLog.made, partialLog.args)

\* C9 witness: a second call of a function with two placeholders, with three
\* arguments.
C9_Witness ==
    /\ partialLog.n = 2
    /\ Len(partialLog.made) = 3
    /\ Holes(partialLog.made, 3) = 2
    /\ partialLog.made[3] # "EMPTY_SPACE"
    /\ Len(partialLog.args) = 3
    /\ Len(partialLog.applied) = 4

\* C10: fuel is never negative and moved is the sum of km over the runs that
\* moved; every step leaves power as it is and moved no smaller; a run with
\* fuel < km / power prints the refusal and leaves fuel and moved as they are;
\* a step other than a run that moved leaves fuel and moved as they are, and no
\* write from outside changes the frozen object.
C10_CarInvariants ==
    /\ [](fuel >= 0 /\ moved = kmMoved /\ publicMembers = [run |-> "run"])
    /\ [][/\ power' = power
          /\ moved' >= moved
          /\ (carLog'.op = "run" /\ fuel * power < carLog'.km * FuelScale) =>
                 carLog'.out = "refused"
          /\ carLog'.out = "refused" =>
                 (fuel' = fuel /\ moved' = moved
                     /\ fuel * power < carLog'.km * FuelScale)
          /\ (fuel' # fuel \/ moved' # moved) =>
                 (carLog'.op = "run" /\ carLog'.out = "moved"
                     /\ moved' = moved + carLog'.km
                     /\ (fuel - fuel') * power = carLog'.km * FuelScale)]_vars

\* C10 witness: a car that has moved and then refused a run, with fuel left.
C10_Witness ==
    /\ carLog.op = "run" /\ carLog.out = "refused"
    /\ moved > 0
    /\ fuel > 0

====
